---- MODULE Spec2Model ----
(***************************************************************************)
(* A model of cvat_utils/core.py: the metadata reconciliation done by      *)
(* load_task_data, the image-id derivation image_path_to_image_id and the  *)
(* export/download protocol of download_images.                            *)
(*                                                                         *)
(* Three specifications share the module's variables:                      *)
(*   Spec          one call of load_task_data on arbitrary bounded input   *)
(*   SpecImageId   image_path_to_image_id applied once and twice           *)
(*   SpecDownload  one call of download_images                             *)
(* Each leaves the variables of the other two at their idle values.        *)
(***************************************************************************)
EXTENDS Integers, Sequences, FiniteSets, TLC

VARIABLES
    \* ---- load_task_data ----
    task,        \* FullTask returned by _load_task: id, name, segments
    meta,        \* FullTaskMetadata returned by _load_task_metadata
    lpc,         \* position inside load_task_data
    jobs,        \* the local list `jobs`
    frames,      \* the local dict `frames`: frame id -> Frame
    jobIdx,      \* number of jobs the loop of line 108 has finished
    result,      \* what the call gave its caller: nothing yet, a value, an error
    \* ---- image_path_to_image_id ----
    path,        \* the argument image_path
    ipc,         \* how many times the derivation has been applied
    id1,         \* image_path_to_image_id(path)
    id2,         \* image_path_to_image_id(id1)
    \* ---- download_images ----
    dtask,            \* the argument task_id
    keep_image_path,  \* the argument keep_image_path
    threshold,        \* config.DOWNLOAD_THRESHOLD_GB
    dpc,              \* position inside download_images
    statuses,         \* the status codes of the export responses, in order
    nExport,          \* export-trigger requests issued (line 171)
    nSleep,           \* calls of time.sleep(5)
    nLogged,          \* calls of logger.error
    nDownload,        \* action=download requests issued (line 181)
    resp,             \* the response to the download request
    strategy,         \* keep_in_memory: "unset", then "memory" or "file"
    buffer,           \* the bytes held by io.BytesIO(resp.content)
    zipChunks,        \* the chunks written so far to task-{id}.zip
    dirs,             \* the directories that exist under output_path
    disk,             \* the files that exist under output_path
    files,            \* the local list `files`
    dresult           \* what the call gave its caller

loadVars == <<task, meta, lpc, jobs, frames, jobIdx, result>>
idVars == <<path, ipc, id1, id2>>
dlVars == <<dtask, keep_image_path, threshold, dpc, statuses, nExport, nSleep, nLogged,
            nDownload, resp, strategy, buffer, zipChunks, dirs, disk, files, dresult>>
vars == <<loadVars, idVars, dlVars>>

(***************************************************************************)
(* Bounds of the model.                                                    *)
(***************************************************************************)
MaxSegments == 2      \* a task has 0..MaxSegments segments
MaxFrame == 1         \* frame ids are drawn from 0..MaxFrame
MaxPathLen == 4       \* image paths have at most this many characters
MaxPolls == 3         \* the export request is answered "not ready" at most this often
MaxChunks == 2        \* the archive arrives in 1..MaxChunks chunks
MaxMembers == 2       \* the archive has 0..MaxMembers members

NoId == -1            \* Python's None in an integer field; an id absent from a message
NoStatus == "None"    \* Python's None in Frame.status

FrameIds == 0 .. MaxFrame
Statuses == {"annotation", "completed"}
JobCounts == {0, 1, 2}   \* len(segment.jobs): none, the expected one, several

Min(S) == CHOOSE x \in S : \A y \in S : x <= y

(***************************************************************************)
(* Strings are sequences of one-character strings, so that split and join  *)
(* can be computed.                                                        *)
(***************************************************************************)
Chars == {"a", ".", "/"}

RECURSIVE Split(_, _)
\* str.split(sep) for a one-character separator: always at least one part
Split(s, sep) ==
    IF \A i \in 1 .. Len(s) : s[i] # sep
    THEN <<s>>
    ELSE LET i == Min({j \in 1 .. Len(s) : s[j] = sep})
         IN  <<SubSeq(s, 1, i - 1)>> \o Split(SubSeq(s, i + 1, Len(s)), sep)

RECURSIVE Join(_, _)
\* sep.join(parts)
Join(parts, sep) ==
    IF parts = <<>> THEN <<>>
    ELSE IF Len(parts) = 1 THEN parts[1]
    ELSE parts[1] \o <<sep>> \o Join(Tail(parts), sep)

\* parts[:-1]
DropLast(parts) == SubSeq(parts, 1, Len(parts) - 1)

\* a mutant of image_path_to_image_id: the path is returned unchanged when it has no dot
image_path_to_image_id_keep(image_path) ==
    IF Len(Split(image_path, ".")) = 1 THEN image_path
    ELSE Join(DropLast(Split(image_path, ".")), ".")

\* ".".join(image_path.split(".")[:-1])
image_path_to_image_id(image_path) == Join(DropLast(Split(image_path, ".")), ".")

\* x.name.split("/")[-1]
file_name_of(name) == LET parts == Split(name, "/") IN parts[Len(parts)]

(***************************************************************************)
(* Inputs of load_task_data: what the two GET requests return.             *)
(***************************************************************************)
TaskIds == {7}
TaskName == "task"

\* job ids are unique over the task: the k-th job of the s-th segment
JobIdOf(s, k) == 10 * s + k

\* the jobs a segment with n jobs holds; st is the status of its first job
SegmentJobs(s, n, st) ==
    [k \in 1 .. n |-> [id |-> JobIdOf(s, k), status |-> IF k = 1 THEN st ELSE "annotation"]]

\* the segments that may stand at position s: a non-empty frame range and 0, 1 or
\* several jobs (the status is free where the segment has the expected single job)
SegmentsAt(s) ==
    { [start_frame |-> a, stop_frame |-> b, jobs |-> SegmentJobs(s, 1, st)] :
        a \in FrameIds, b \in FrameIds, st \in Statuses }
    \cup
    { [start_frame |-> a, stop_frame |-> b, jobs |-> SegmentJobs(s, n, "annotation")] :
        a \in FrameIds, b \in FrameIds, n \in JobCounts \ {1} }

RECURSIVE SegmentLists(_)
\* all lists of n segments
SegmentLists(n) ==
    IF n = 0 THEN {<<>>}
    ELSE { Append(l, seg) : l \in SegmentLists(n - 1),
                            seg \in {x \in SegmentsAt(n) : x.start_frame <= x.stop_frame} }

Tasks ==
    { [id |-> i, name |-> TaskName, segments |-> l] :
        i \in TaskIds, l \in UNION { SegmentLists(n) : n \in 0 .. MaxSegments } }

\* the k-th frame descriptor of meta.frames: a path with a directory and an extension
DescName(k) == <<"d", "/">> \o [i \in 1 .. k |-> "a"] \o <<".", "a">>
Descriptor(k) == [name |-> DescName(k), width |-> 10 * k, height |-> 10 * k + 1]

\* meta: a non-empty declared range, and as many descriptors as the range has
\* frame ids, one fewer or one more
Metas ==
    { m \in { [start_frame |-> a, stop_frame |-> b,
               frames |-> [k \in 1 .. n |-> Descriptor(k)]] :
                 a \in FrameIds, b \in FrameIds, n \in 0 .. (MaxFrame + 2) } :
        /\ m.start_frame <= m.stop_frame
        /\ Len(m.frames) - (m.stop_frame - m.start_frame + 1) \in {-1, 0, 1} }

(***************************************************************************)
(* load_task_data                                                          *)
(***************************************************************************)
NoResult ==
    [kind |-> "none", msg |-> "", segment |-> NoId, job |-> NoId, frame |-> NoId,
     jobs |-> <<>>, frames |-> <<>>]

\* an AssertionError leaving load_task_data, with the ids its message carries
Raised(m, j, f) ==
    [kind |-> "error", msg |-> m, segment |-> NoId, job |-> j, frame |-> f,
     jobs |-> <<>>, frames |-> <<>>]

Returned(js, fs) ==
    [kind |-> "ok", msg |-> "", segment |-> NoId, job |-> NoId, frame |-> NoId,
     jobs |-> js, frames |-> fs]

\* all([len(x.jobs) == 1 for x in task.segments])
SingleJobSegments(t) == \A s \in 1 .. Len(t.segments) : Len(t.segments[s].jobs) = 1

\* Job(**job.dict(), start_frame=segment.start_frame, stop_frame=segment.stop_frame)
JobView(segment, job) ==
    [id |-> job.id, status |-> job.status,
     start_frame |-> segment.start_frame, stop_frame |-> segment.stop_frame]

RECURSIVE FlattenJobs(_)
\* [Job(...) for segment in task.segments for job in segment.jobs]
FlattenJobs(segments) ==
    IF segments = <<>> THEN <<>>
    ELSE [k \in 1 .. Len(Head(segments).jobs) |-> JobView(Head(segments), Head(segments).jobs[k])]
         \o FlattenJobs(Tail(segments))

\* a mutant of FrameKeys: range(meta.start_frame, meta.stop_frame), the last id lost
FrameKeysShort(m) ==
    { m.start_frame + i - 1 : i \in 1 .. Min({Len(m.frames), m.stop_frame - m.start_frame}) }

\* the keys zip(range(meta.start_frame, meta.stop_frame + 1), meta.frames) yields:
\* zip stops at the shorter of the two
FrameKeys(m) ==
    { m.start_frame + i - 1 : i \in 1 .. Min({Len(m.frames), m.stop_frame - m.start_frame + 1}) }

\* the dict comprehension of lines 94-105; job_id and status are left at None
BuildFrameIndex(t, m) ==
    [frame_id \in FrameKeys(m) |->
        LET x == m.frames[frame_id - m.start_frame + 1]
        IN  [id |-> image_path_to_image_id(x.name),
             frame_id |-> frame_id,
             file_name |-> file_name_of(x.name),
             width |-> x.width,
             height |-> x.height,
             task_id |-> t.id,
             task_name |-> t.name,
             job_id |-> NoId,
             status |-> NoStatus]]

\* range(job_data.start_frame, job_data.stop_frame + 1)
JobRange(job) == job.start_frame .. job.stop_frame

\* the frame ids of the job's range that fail `frame_id in frames`
MissingFrames(fs, job) == { f \in JobRange(job) : f \notin DOMAIN fs }

\* a mutant of FirstMissing: the last missing frame id is reported
LastMissing(fs, job) == CHOOSE f \in MissingFrames(fs, job) : \A g \in MissingFrames(fs, job) : g <= f

\* the frame id at which the assert of line 110 fails: the loop runs in ascending order
FirstMissing(fs, job) == Min(MissingFrames(fs, job))

\* a mutant of AssignJob: a frame that already has a job keeps it
AssignJobKeepFirst(fs, job) ==
    [f \in DOMAIN fs |->
        IF f \in JobRange(job) /\ fs[f].job_id = NoId
        THEN [fs[f] EXCEPT !.job_id = job.id, !.status = job.status]
        ELSE fs[f]]

\* lines 113-114 over the whole range of one job
AssignJob(fs, job) ==
    [f \in DOMAIN fs |->
        IF f \in JobRange(job)
        THEN [fs[f] EXCEPT !.job_id = job.id, !.status = job.status]
        ELSE fs[f]]

\* the frames that fail `frame_data.job_id is not None`
Unassigned(fs) == { f \in DOMAIN fs : fs[f].job_id = NoId }

\* a mutant of FirstUnassigned: the largest uncovered frame id is reported
LastUnassigned(fs) == CHOOSE f \in Unassigned(fs) : \A g \in Unassigned(fs) : g <= f

\* the frame id at which the assert of line 116 fails: frames.items() iterates in
\* insertion order, which is the ascending order of frame_ids_range
FirstUnassigned(fs) == Min(Unassigned(fs))

InitLoad ==
    /\ task \in Tasks
    /\ meta \in Metas
    /\ lpc = "start"
    /\ jobs = <<>>
    /\ frames = <<>>
    /\ jobIdx = 0
    /\ result = NoResult

IdleLoad ==
    /\ task = [id |-> 0, name |-> TaskName, segments |-> <<>>]
    /\ meta = [start_frame |-> 0, stop_frame |-> 0, frames |-> <<>>]
    /\ lpc = "idle"
    /\ jobs = <<>>
    /\ frames = <<>>
    /\ jobIdx = 0
    /\ result = NoResult

\* lines 83-85: the assert on the segments fails
SegmentAssertFails ==
    /\ lpc = "start"
    /\ ~SingleJobSegments(task)
    /\ lpc' = "raised"
    /\ result' = Raised("one segment has multiple jobs", NoId, NoId)
    /\ UNCHANGED <<task, meta, jobs, frames, jobIdx>>
    /\ UNCHANGED <<idVars, dlVars>>

\* lines 83-90: the assert passes and the job list is derived
DeriveJobs ==
    /\ lpc = "start"
    /\ SingleJobSegments(task)
    /\ jobs' = FlattenJobs(task.segments)
    /\ lpc' = "frames"
    /\ UNCHANGED <<task, meta, frames, jobIdx, result>>
    /\ UNCHANGED <<idVars, dlVars>>

\* lines 93-105
BuildFrames ==
    /\ lpc = "frames"
    /\ frames' = BuildFrameIndex(task, meta)
    /\ jobIdx' = 0
    /\ lpc' = "assign"
    /\ UNCHANGED <<task, meta, jobs, result>>
    /\ UNCHANGED <<idVars, dlVars>>

\* lines 108-114, one job: every frame of its range is in the index
AssignNextJob ==
    /\ lpc = "assign"
    /\ jobIdx < Len(jobs)
    /\ MissingFrames(frames, jobs[jobIdx + 1]) = {}
    /\ frames' = AssignJob(frames, jobs[jobIdx + 1])
    /\ jobIdx' = jobIdx + 1
    /\ UNCHANGED <<task, meta, lpc, jobs, result>>
    /\ UNCHANGED <<idVars, dlVars>>

\* lines 108-112, one job: the assert fails at the first frame id not in the index,
\* after the frames before it were assigned
JobAssertFails ==
    /\ lpc = "assign"
    /\ jobIdx < Len(jobs)
    /\ MissingFrames(frames, jobs[jobIdx + 1]) # {}
    /\ LET job == jobs[jobIdx + 1]
           bad == FirstMissing(frames, job)
       IN  /\ frames' = AssignJob(frames, [job EXCEPT !.stop_frame = bad - 1])
           /\ result' = Raised("job is missing a frame", job.id, bad)
    /\ lpc' = "raised"
    /\ UNCHANGED <<task, meta, jobs, jobIdx>>
    /\ UNCHANGED <<idVars, dlVars>>

\* lines 115-118: some frame has no job id
FrameAssertFails ==
    /\ lpc = "assign"
    /\ jobIdx = Len(jobs)
    /\ Unassigned(frames) # {}
    /\ result' = Raised("frame is missing job id", NoId, FirstUnassigned(frames))
    /\ lpc' = "raised"
    /\ UNCHANGED <<task, meta, jobs, frames, jobIdx>>
    /\ UNCHANGED <<idVars, dlVars>>

\* lines 115-125: every frame has a job id; task, jobs and frames are returned
\* (return_dict only changes the representation of the same values)
ReturnTaskData ==
    /\ lpc = "assign"
    /\ jobIdx = Len(jobs)
    /\ Unassigned(frames) = {}
    /\ result' = Returned(jobs, frames)
    /\ lpc' = "returned"
    /\ UNCHANGED <<task, meta, jobs, frames, jobIdx>>
    /\ UNCHANGED <<idVars, dlVars>>

(***************************************************************************)
(* image_path_to_image_id, applied to a path and then to its own result    *)
(***************************************************************************)
RECURSIVE PathsOfLen(_)
PathsOfLen(n) ==
    IF n = 0 THEN {<<>>}
    ELSE { Append(p, c) : p \in PathsOfLen(n - 1), c \in Chars }

Paths == UNION { PathsOfLen(n) : n \in 0 .. MaxPathLen }

InitImageId ==
    /\ path \in Paths
    /\ ipc = 0
    /\ id1 = <<>>
    /\ id2 = <<>>

IdleImageId ==
    /\ path = <<>>
    /\ ipc = -1
    /\ id1 = <<>>
    /\ id2 = <<>>

\* id = image_path_to_image_id(path)
DeriveImageId ==
    /\ ipc = 0
    /\ id1' = image_path_to_image_id(path)
    /\ ipc' = 1
    /\ UNCHANGED <<path, id2>>
    /\ UNCHANGED <<loadVars, dlVars>>

\* the derivation applied to an id it produced
DeriveImageIdAgain ==
    /\ ipc = 1
    /\ id2' = image_path_to_image_id(id1)
    /\ ipc' = 2
    /\ UNCHANGED <<path, id1>>
    /\ UNCHANGED <<loadVars, dlVars>>

(***************************************************************************)
(* download_images                                                         *)
(***************************************************************************)
BytesPerGB == 1000000000   \* the factor 1e-9 of line 190, inverted

Created == 201
ServerError == 500
\* the status codes an export request is answered with
ExportStatuses == {202, ServerError, Created}

Thresholds == {1, 2}
\* advertised sizes in bytes around the thresholds
ContentLengths ==
    {BytesPerGB - 1, BytesPerGB, BytesPerGB + 1, 2 * BytesPerGB, 2 * BytesPerGB + 1}

\* archive member names: directory components, base name, extension
MemberNames ==
    { [dir |-> <<"images">>, base |-> "a", ext |-> "jpg"],
      [dir |-> <<>>, base |-> "b", ext |-> "png"],
      [dir |-> <<>>, base |-> "annotations", ext |-> "xml"] }

ImageExtensions == {"jpg", "png"}

\* cvat_utils.utils.is_image: classification by the extension
is_image(x) == x.ext \in ImageExtensions

RECURSIVE MemberLists(_)
MemberLists(n) ==
    IF n = 0 THEN {<<>>}
    ELSE { Append(l, m) : l \in MemberLists(n - 1), m \in MemberNames }

\* the responses to the download request: a zip archive in some chunks, or an
\* HTTP error whose body is no archive
DownloadResponses ==
    { [ok |-> TRUE, content_length |-> n, chunks |-> [i \in 1 .. c |-> i], members |-> l] :
        n \in ContentLengths, c \in 1 .. MaxChunks,
        l \in UNION { MemberLists(k) : k \in 0 .. MaxMembers } }
    \cup
    { [ok |-> FALSE, content_length |-> n, chunks |-> <<0>>, members |-> <<>>] :
        n \in ContentLengths }

NoResponse == [ok |-> FALSE, content_length |-> 0, chunks |-> <<>>, members |-> <<>>]

\* f"task-{task_id}"
TaskDirName(task_id) == "task-" \o ToString(task_id)

\* os.path.join(output_path, f"task-{task_id}.zip"), relative to output_path
ZipPath(task_id) == [dir |-> <<>>, base |-> TaskDirName(task_id), ext |-> "zip"]

\* os.path.join(d, x) for a relative member name x
PathJoin(d, x) == [x EXCEPT !.dir = <<d>> \o @]

\* a mutant of ExportReady: a 500 response ends the wait as well
ExportReadyOrFailed(status_code) == status_code \in {Created, ServerError}

\* resp.status_code == 201
ExportReady(status_code) == status_code = Created

\* a mutant of KeepInMemory: a payload of exactly the threshold goes to the file
KeepInMemoryStrict(content_length, threshold_gb) == content_length < threshold_gb * BytesPerGB

\* float(resp.headers["Content-Length"]) * 1e-9 <= config.DOWNLOAD_THRESHOLD_GB,
\* both sides multiplied by 1e9
KeepInMemory(content_length, threshold_gb) == content_length <= threshold_gb * BytesPerGB

\* a mutant of ImageMembers: no filter
ImageMembersAll(namelist) == namelist

RECURSIVE ImageMembers(_)
\* [x for x in zip_ref.namelist() if is_image(x)]
ImageMembers(namelist) ==
    IF namelist = <<>> THEN <<>>
    ELSE (IF is_image(Head(namelist)) THEN <<Head(namelist)>> ELSE <<>>)
         \o ImageMembers(Tail(namelist))

\* the paths extractall(output_task_path, members) writes, relative to output_path
Extracted(members, keep, task_id) ==
    { IF keep THEN members[i] ELSE PathJoin(TaskDirName(task_id), members[i]) :
        i \in 1 .. Len(members) }

\* lines 214-215
ReturnedFiles(members, keep, task_id) ==
    IF keep THEN members
    ELSE [i \in 1 .. Len(members) |-> PathJoin(TaskDirName(task_id), members[i])]

InitDownload ==
    /\ dtask \in TaskIds
    /\ keep_image_path \in BOOLEAN
    /\ threshold \in Thresholds
    /\ dpc = "request"
    /\ statuses = <<>>
    /\ nExport = 0
    /\ nSleep = 0
    /\ nLogged = 0
    /\ nDownload = 0
    /\ resp = NoResponse
    /\ strategy = "unset"
    /\ buffer = <<>>
    /\ zipChunks = <<>>
    /\ dirs \in {{}, {"output_path"}, {"output_path", TaskDirName(dtask)}}
    /\ disk = {}
    /\ files = <<>>
    /\ dresult = [kind |-> "none", error |-> "", files |-> <<>>]

IdleDownload ==
    /\ dtask = 0
    /\ keep_image_path = TRUE
    /\ threshold = 0
    /\ dpc = "idle"
    /\ statuses = <<>>
    /\ nExport = 0
    /\ nSleep = 0
    /\ nLogged = 0
    /\ nDownload = 0
    /\ resp = NoResponse
    /\ strategy = "unset"
    /\ buffer = <<>>
    /\ zipChunks = <<>>
    /\ dirs = {}
    /\ disk = {}
    /\ files = <<>>
    /\ dresult = [kind |-> "none", error |-> "", files |-> <<>>]

NotReadyCount == Cardinality({i \in 1 .. Len(statuses) : statuses[i] # Created})

\* line 171: the export request is sent and answered
SendExportRequest ==
    /\ dpc = "request"
    /\ \E status_code \in ExportStatuses :
        /\ status_code # Created => NotReadyCount < MaxPolls
        /\ statuses' = Append(statuses, status_code)
    /\ nExport' = nExport + 1
    /\ dpc' = "response"
    /\ UNCHANGED <<dtask, keep_image_path, threshold, nSleep, nLogged, nDownload, resp,
                   strategy, buffer, zipChunks, dirs, disk, files, dresult>>
    /\ UNCHANGED <<loadVars, idVars>>

\* lines 172-173: break
LeaveExportLoop ==
    /\ dpc = "response"
    /\ ExportReady(statuses[Len(statuses)])
    /\ dpc' = "ready"
    /\ UNCHANGED <<dtask, keep_image_path, threshold, statuses, nExport, nSleep, nLogged,
                   nDownload, resp, strategy, buffer, zipChunks, dirs, disk, files, dresult>>
    /\ UNCHANGED <<loadVars, idVars>>

\* lines 174-176: a 500 is logged; the loop sleeps and goes round again
SleepAndRetry ==
    /\ dpc = "response"
    /\ ~ExportReady(statuses[Len(statuses)])
    /\ nLogged' = IF statuses[Len(statuses)] = ServerError THEN nLogged + 1 ELSE nLogged
    /\ nSleep' = nSleep + 1
    /\ dpc' = "request"
    /\ UNCHANGED <<dtask, keep_image_path, threshold, statuses, nExport, nDownload, resp,
                   strategy, buffer, zipChunks, dirs, disk, files, dresult>>
    /\ UNCHANGED <<loadVars, idVars>>

\* lines 181-191: the download request, and keep_in_memory from its Content-Length
RequestDownload ==
    /\ dpc = "ready"
    /\ \E r \in DownloadResponses :
        /\ resp' = r
        /\ strategy' = IF KeepInMemory(r.content_length, threshold) THEN "memory" ELSE "file"
    /\ nDownload' = nDownload + 1
    /\ dpc' = "download"
    /\ UNCHANGED <<dtask, keep_image_path, threshold, statuses, nExport, nSleep, nLogged,
                   buffer, zipChunks, dirs, disk, files, dresult>>
    /\ UNCHANGED <<loadVars, idVars>>

\* lines 192-194: the whole body is read into memory
BufferInMemory ==
    /\ dpc = "download"
    /\ strategy = "memory"
    /\ buffer' = resp.chunks
    /\ dpc' = "extract"
    /\ UNCHANGED <<dtask, keep_image_path, threshold, statuses, nExport, nSleep, nLogged,
                   nDownload, resp, strategy, zipChunks, dirs, disk, files, dresult>>
    /\ UNCHANGED <<loadVars, idVars>>

\* line 197: resp.raise_for_status() raises
DownloadStatusRaises ==
    /\ dpc = "download"
    /\ strategy = "file"
    /\ ~resp.ok
    /\ dresult' = [kind |-> "error", error |-> "HTTPError", files |-> <<>>]
    /\ dpc' = "raised"
    /\ UNCHANGED <<dtask, keep_image_path, threshold, statuses, nExport, nSleep, nLogged,
                   nDownload, resp, strategy, buffer, zipChunks, dirs, disk, files>>
    /\ UNCHANGED <<loadVars, idVars>>

\* lines 197-200: the output directory is made and task-{id}.zip is opened for writing
OpenZipFile ==
    /\ dpc = "download"
    /\ strategy = "file"
    /\ resp.ok
    /\ dirs' = dirs \cup {"output_path"}
    /\ disk' = disk \cup {ZipPath(dtask)}
    /\ zipChunks' = <<>>
    /\ dpc' = "stream"
    /\ UNCHANGED <<dtask, keep_image_path, threshold, statuses, nExport, nSleep, nLogged,
                   nDownload, resp, strategy, buffer, files, dresult>>
    /\ UNCHANGED <<loadVars, idVars>>

\* lines 201-202: one chunk is read and written
WriteChunk ==
    /\ dpc = "stream"
    /\ Len(zipChunks) < Len(resp.chunks)
    /\ zipChunks' = Append(zipChunks, resp.chunks[Len(zipChunks) + 1])
    /\ UNCHANGED <<dtask, keep_image_path, threshold, dpc, statuses, nExport, nSleep, nLogged,
                   nDownload, resp, strategy, buffer, dirs, disk, files, dresult>>
    /\ UNCHANGED <<loadVars, idVars>>

\* the end of the with block of line 200: iter_content is exhausted
CloseZipFile ==
    /\ dpc = "stream"
    /\ Len(zipChunks) = Len(resp.chunks)
    /\ dpc' = "extract"
    /\ UNCHANGED <<dtask, keep_image_path, threshold, statuses, nExport, nSleep, nLogged,
                   nDownload, resp, strategy, buffer, zipChunks, dirs, disk, files, dresult>>
    /\ UNCHANGED <<loadVars, idVars>>

\* line 210: os.makedirs(output_task_path, exist_ok=False) finds the directory
TaskDirExists ==
    /\ dpc = "extract"
    /\ ~keep_image_path
    /\ TaskDirName(dtask) \in dirs
    /\ dresult' = [kind |-> "error", error |-> "FileExistsError", files |-> <<>>]
    /\ dpc' = "raised"
    /\ UNCHANGED <<dtask, keep_image_path, threshold, statuses, nExport, nSleep, nLogged,
                   nDownload, resp, strategy, buffer, zipChunks, dirs, disk, files>>
    /\ UNCHANGED <<loadVars, idVars>>

\* the directories lines 205-210 leave behind
MadeDirs == dirs \cup {"output_path"} \cup (IF keep_image_path THEN {} ELSE {TaskDirName(dtask)})

\* lines 205-211: the directory is made, and zipfile.ZipFile rejects a body that is
\* no archive
BadZipFile ==
    /\ dpc = "extract"
    /\ keep_image_path \/ TaskDirName(dtask) \notin dirs
    /\ ~resp.ok
    /\ dirs' = MadeDirs
    /\ dresult' = [kind |-> "error", error |-> "BadZipFile", files |-> <<>>]
    /\ dpc' = "raised"
    /\ UNCHANGED <<dtask, keep_image_path, threshold, statuses, nExport, nSleep, nLogged,
                   nDownload, resp, strategy, buffer, zipChunks, disk, files>>
    /\ UNCHANGED <<loadVars, idVars>>

\* lines 205-218: the image members are extracted and their paths returned
ExtractImages ==
    /\ dpc = "extract"
    /\ keep_image_path \/ TaskDirName(dtask) \notin dirs
    /\ resp.ok
    /\ dirs' = MadeDirs
    /\ LET members == ImageMembers(resp.members)
       IN  /\ disk' = disk \cup Extracted(members, keep_image_path, dtask)
           /\ files' = ReturnedFiles(members, keep_image_path, dtask)
           /\ dresult' = [kind |-> "ok", error |-> "",
                          files |-> ReturnedFiles(members, keep_image_path, dtask)]
    /\ dpc' = "done"
    /\ UNCHANGED <<dtask, keep_image_path, threshold, statuses, nExport, nSleep, nLogged,
                   nDownload, resp, strategy, buffer, zipChunks>>
    /\ UNCHANGED <<loadVars, idVars>>

Init == InitLoad /\ IdleImageId /\ IdleDownload

Next ==
    \/ SegmentAssertFails
    \/ DeriveJobs
    \/ BuildFrames
    \/ AssignNextJob
    \/ JobAssertFails
    \/ FrameAssertFails
    \/ ReturnTaskData

Spec == Init /\ [][Next]_vars

InitId == IdleLoad /\ InitImageId /\ IdleDownload

NextId ==
    \/ DeriveImageId
    \/ DeriveImageIdAgain

SpecImageId == InitId /\ [][NextId]_vars

InitDl == IdleLoad /\ IdleImageId /\ InitDownload

NextDl ==
    \/ SendExportRequest
    \/ LeaveExportLoop
    \/ SleepAndRetry
    \/ RequestDownload
    \/ BufferInMemory
    \/ DownloadStatusRaises
    \/ OpenZipFile
    \/ WriteChunk
    \/ CloseZipFile
    \/ TaskDirExists
    \/ BadZipFile
    \/ ExtractImages

SpecDownload == InitDl /\ [][NextDl]_vars

(***************************************************************************)
(* Properties of load_task_data (specification Spec)                       *)
(***************************************************************************)
Max(S) == CHOOSE x \in S : \A y \in S : y <= x
Finished == lpc \in {"raised", "returned"}
MetaRange == meta.start_frame .. meta.stop_frame
SegRange(s) == task.segments[s].start_frame .. task.segments[s].stop_frame
SegIds == 1 .. Len(task.segments)
NothingReturned == result.jobs = <<>> /\ result.frames = <<>>

\* the inputs of C1: one job per segment, as many descriptors as frame ids, every
\* job inside the declared range, every frame id of the range covered
ValidInput ==
    /\ \A s \in SegIds : Len(task.segments[s].jobs) = 1
    /\ Len(meta.frames) = meta.stop_frame - meta.start_frame + 1
    /\ \A s \in SegIds : SegRange(s) \subseteq MetaRange
    /\ \A f \in MetaRange : \E s \in SegIds : f \in SegRange(s)

\* C1: on a valid input load_task_data raises nothing, always has a next step until
\* it returns, and the frame index it returns has exactly the keys meta.start_frame..meta.stop_frame, each entry with
\* a job id that is not None.
C1_ValidInputGivesFullIndex ==
    ValidInput =>
        /\ lpc # "raised"
        /\ lpc # "returned" => ENABLED Next
        /\ lpc = "returned" =>
            /\ result.kind = "ok"
            /\ DOMAIN result.frames = MetaRange
            /\ \A f \in DOMAIN result.frames : result.frames[f].job_id # NoId

C1_Witness ==
    /\ ValidInput
    /\ lpc = "returned"
    /\ Len(task.segments) = 2
    /\ meta.stop_frame > meta.start_frame

\* C2 (as claimed): whenever len(meta.frames) differs from the length of the
\* declared range, load_task_data does not return a frame index.
C2_CountMismatchIsFatal ==
    Len(meta.frames) # meta.stop_frame - meta.start_frame + 1 => lpc # "returned"

\* an input on which C2 fails: one descriptor more than the declared range has ids
C2_FailingInput ==
    /\ meta.start_frame = 0 /\ meta.stop_frame = 0 /\ Len(meta.frames) = 2
    /\ Len(task.segments) = 1
    /\ Len(task.segments[1].jobs) = 1
    /\ SegRange(1) = {0}
    /\ lpc = "returned"
    /\ DOMAIN result.frames = {0}

\* the jobs, in list order, whose range has a frame id that is no key of the index
OffendingJobs == { j \in 1 .. Len(jobs) : \E f \in jobs[j].start_frame .. jobs[j].stop_frame :
                                              f \notin DOMAIN frames }

\* C3: once the index is built, if some job's range has a frame id that is no key
\* of it, the call ends in the error "job is missing a frame" carrying the id of the
\* first such job in segment order and the smallest missing frame id of that job,
\* and nothing is returned.
C3_MissingFrameNamesJob ==
    ((\A s \in SegIds : Len(task.segments[s].jobs) = 1) /\ Finished /\ OffendingJobs # {}) =>
        LET j == Min(OffendingJobs)
            missing == { f \in jobs[j].start_frame .. jobs[j].stop_frame : f \notin DOMAIN frames }
        IN  /\ result.kind = "error"
            /\ result.msg = "job is missing a frame"
            /\ result.job = jobs[j].id
            /\ result.frame = Min(missing)
            /\ NothingReturned

C3_Witness ==
    /\ lpc = "raised"
    /\ result.msg = "job is missing a frame"
    /\ Len(jobs) = 2
    /\ result.job = jobs[2].id
    /\ result.frame > jobs[2].start_frame

\* the keys of the index that lie in no job's range
UncoveredFrames == { f \in DOMAIN frames : \A j \in 1 .. Len(jobs) :
                                             f \notin jobs[j].start_frame .. jobs[j].stop_frame }

\* C4: once the index is built, if every job's range lies inside it and some key is
\* covered by no job, the call ends in the error "frame is missing job id" carrying
\* the smallest uncovered frame id, and nothing is returned.
C4_UncoveredFrameNamesFrame ==
    ((\A s \in SegIds : Len(task.segments[s].jobs) = 1) /\ Finished
        /\ OffendingJobs = {} /\ UncoveredFrames # {}) =>
        /\ result.kind = "error"
        /\ result.msg = "frame is missing job id"
        /\ result.frame = Min(UncoveredFrames)
        /\ NothingReturned

C4_Witness ==
    /\ lpc = "raised"
    /\ result.msg = "frame is missing job id"
    /\ Len(jobs) >= 1
    /\ result.frame > meta.start_frame

\* the segments that do not have exactly one job
BadSegments == { s \in SegIds : Len(task.segments[s].jobs) # 1 }

\* C5 (as claimed): if some segment does not have exactly one job, the call raises
\* before any job view or frame entry is derived, and the error names an offending
\* segment.
C5_SegmentErrorNamesSegment ==
    (BadSegments # {} /\ Finished) =>
        /\ result.kind = "error"
        /\ jobs = <<>>
        /\ frames = <<>>
        /\ result.segment \in BadSegments

\* an input on which C5 fails: the only segment has two jobs, and the error raised
\* carries no segment
C5_FailingInput ==
    /\ Len(task.segments) = 1
    /\ Len(task.segments[1].jobs) = 2
    /\ lpc = "raised"
    /\ result.msg = "one segment has multiple jobs"
    /\ result.segment = NoId
    /\ jobs = <<>> /\ frames = <<>>

\* C10: in a returned index every frame carries the id and status of the last
\* segment's job, in segment order, whose range contains the frame id (so a later
\* job overwrites an earlier one, without error); the returned job list has one entry
\* per segment, in segment order, with that segment's job and frame bounds.
C10_LastJobWins ==
    lpc = "returned" =>
        /\ Len(result.jobs) = Len(task.segments)
        /\ \A s \in SegIds :
            result.jobs[s] = [id |-> task.segments[s].jobs[1].id,
                              status |-> task.segments[s].jobs[1].status,
                              start_frame |-> task.segments[s].start_frame,
                              stop_frame |-> task.segments[s].stop_frame]
        /\ \A f \in DOMAIN result.frames :
            LET covering == { s \in SegIds : f \in SegRange(s) }
            IN  /\ covering # {}
                /\ result.frames[f].job_id = task.segments[Max(covering)].jobs[1].id
                /\ result.frames[f].status = task.segments[Max(covering)].jobs[1].status

C10_Witness ==
    /\ lpc = "returned"
    /\ Len(task.segments) = 2
    /\ task.segments[1].jobs[1].status # task.segments[2].jobs[1].status
    /\ \E f \in DOMAIN result.frames : f \in SegRange(1) /\ f \in SegRange(2)
    /\ \E f \in DOMAIN result.frames : f \in SegRange(1) /\ f \notin SegRange(2)

(***************************************************************************)
(* Properties of image_path_to_image_id (specification SpecImageId)        *)
(***************************************************************************)
Dots(p) == { i \in 1 .. Len(p) : p[i] = "." }

\* p up to, and without, its last dot; empty when p has no dot
BeforeLastDot(p) == IF Dots(p) = {} THEN <<>> ELSE SubSeq(p, 1, Max(Dots(p)) - 1)

\* C9 (as claimed): the id is the path with its last dot-delimited segment removed,
\* and deriving the id of an id gives the same id: f(f(p)) = f(p).
C9_ImageIdIdempotent ==
    /\ ipc >= 1 => id1 = BeforeLastDot(path)
    /\ ipc = 2 => id2 = id1

\* C9 (amended): the id is the path cut before its last dot, and is empty when the
\* path has no dot; deriving the id of an id strips one more segment, so f(f(p)) =
\* f(p) exactly when f(p) is empty, and f(f(p)) is shorter than f(p) otherwise.
C9_ImageIdStripsOneSegment ==
    /\ ipc >= 1 => id1 = BeforeLastDot(path)
    /\ ipc >= 1 /\ Dots(path) = {} => id1 = <<>>
    /\ ipc = 2 => id2 = BeforeLastDot(id1)
    /\ ipc = 2 => (id2 = id1 <=> id1 = <<>>)
    /\ ipc = 2 /\ id1 # <<>> => Len(id2) < Len(id1)

C9_Witness ==
    /\ ipc = 2
    /\ Cardinality(Dots(path)) = 2
    /\ id1 # <<>>
    /\ id2 # <<>>
    /\ id2 # id1

(***************************************************************************)
(* Properties of download_images (specification SpecDownload)              *)
(***************************************************************************)
Waiting == dpc \in {"request", "response"}

\* C6: the export loop is left only on a 201. Every export request is answered once;
\* while waiting, every answered "not ready" response (500 included) was followed by
\* one sleep and no error left the call; once the loop is left the responses were k
\* non-201 codes and then one 201, with k + 1 export requests and k sleeps; the
\* download request is sent once, and only after the 201.
C6_LoopLeavesOnlyOn201 ==
    /\ nExport = Len(statuses)
    /\ dpc = "request" => nSleep = nExport /\ NotReadyCount = nExport
    /\ dpc = "response" => nSleep = nExport - 1 /\ NotReadyCount >= nExport - 1
    /\ Waiting => dresult.kind = "none" /\ nDownload = 0
    /\ dpc = "ready" => nDownload = 0
    /\ ~Waiting =>
        /\ nExport >= 1
        /\ statuses[nExport] = Created
        /\ \A i \in 1 .. nExport - 1 : statuses[i] # Created
        /\ nExport = NotReadyCount + 1
        /\ nSleep = NotReadyCount
    /\ nDownload <= 1
    /\ dpc \notin {"request", "response", "ready"} => nDownload = 1
    /\ nLogged = Cardinality({ i \in 1 .. nSleep : statuses[i] = ServerError })

C6_Witness ==
    /\ dpc = "download"
    /\ nDownload = 1
    /\ statuses = <<ServerError, 202, ServerError, Created>>
    /\ nExport = 4
    /\ nSleep = 3

OverThreshold == resp.content_length > threshold * BytesPerGB
ZipWritten == ZipPath(dtask) \in disk

\* C7: the strategy is fixed by the Content-Length alone and before a byte is
\* stored: nothing is buffered or written while it is unset; it is "file" exactly
\* when the size is strictly over the threshold; on the file path the body is never
\* buffered and all its chunks reach task-{id}.zip; on the memory path the body is
\* buffered and task-{id}.zip is never created.
C7_StrategyFromContentLength ==
    /\ strategy = "unset" <=> nDownload = 0
    /\ strategy = "unset" => buffer = <<>> /\ ~ZipWritten /\ zipChunks = <<>>
    /\ strategy # "unset" => strategy = (IF OverThreshold THEN "file" ELSE "memory")
    /\ strategy = "file" =>
        /\ buffer = <<>>
        /\ dpc \in {"extract", "done"} => ZipWritten /\ zipChunks = resp.chunks
    /\ strategy = "memory" =>
        /\ ~ZipWritten
        /\ zipChunks = <<>>
        /\ dpc \in {"extract", "done"} => buffer = resp.chunks
    /\ ~(buffer # <<>> /\ ZipWritten)

C7_Witness ==
    /\ dpc = "done"
    /\ strategy = "file"
    /\ resp.content_length = threshold * BytesPerGB + 1
    /\ ZipWritten
    /\ Len(zipChunks) = 2

\* the positions of the archive's members that are images
ImagePositions == { i \in 1 .. Len(resp.members) : is_image(resp.members[i]) }
\* the position of the k-th image member
KthImage(k) == CHOOSE i \in ImagePositions : Cardinality({ j \in ImagePositions : j <= i }) = k
\* where a member lands, and how it is reported
Placed(m) == IF keep_image_path THEN m ELSE [m EXCEPT !.dir = <<TaskDirName(dtask)>> \o @]

\* C8: no member that is not an image is ever on disk; when the call returns, the
\* extracted files are exactly the image members, and the returned list is the
\* image members in archive order, each under task-{id} when keep_image_path is
\* false and as named in the archive otherwise.
C8_OnlyImagesExtracted ==
    /\ \A p \in disk : p = ZipPath(dtask) \/ is_image(p)
    /\ dpc # "done" => disk \subseteq {ZipPath(dtask)}
    /\ dpc = "done" =>
        /\ disk \ {ZipPath(dtask)} = { Placed(resp.members[i]) : i \in ImagePositions }
        /\ dresult.kind = "ok"
        /\ dresult.files = files
        /\ Len(files) = Cardinality(ImagePositions)
        /\ \A k \in 1 .. Len(files) : files[k] = Placed(resp.members[KthImage(k)])

C8_Witness ==
    /\ dpc = "done"
    /\ ~keep_image_path
    /\ Len(resp.members) = 2
    /\ ~is_image(resp.members[1])
    /\ is_image(resp.members[2])
    /\ Len(files) = 1

====
